---------------------------- MODULE Spec2Model ----------------------------
(***************************************************************************)
(* Model of cola/fsmonitor.py: the _Monitor controller, the shared         *)
(* coalescing logic of _BaseThread, the per-directory backend              *)
(* (_InotifyThread) with its watch-set reconciliation, and the recursive   *)
(* backend (_Win32Thread).                                                 *)
(*                                                                         *)
(* Two execution contexts run concurrently: the controller (the caller of  *)
(* Monitor.start/stop/refresh) and the backend thread (run()).  Each       *)
(* action below is one atomic step of one of them, or one step of the      *)
(* environment (the kernel queueing an event, time passing, the file       *)
(* system or the tracked-file list changing).  A step of a context ends    *)
(* where the other context can observe or change what the next step        *)
(* reads: at the unlocked reads of _running, at blocking waits and at      *)
(* every system call of a reconciliation pass.                             *)
(***************************************************************************)
EXTENDS Integers, Sequences, FiniteSets

(***************************************************************************)
(* Bounds of the model.                                                    *)
(***************************************************************************)
MaxCtlOps == 2      \* calls of Monitor.start/stop/refresh in one run
MaxEvents == 2      \* raw events / completed reads the kernel delivers
MaxFaults == 1      \* system calls of the backend that fail
MaxWorldOps == 1    \* changes of the file system or the tracked-file list
MaxQueue == 2       \* queue length from which no further raw event is injected
MaxBatch == 2       \* change records in one ReadDirectoryChangesW result
TickMs == 444       \* milliseconds that pass in one Tick
MaxObservableOps == 5   \* calls made on one Observable
MaxNesting == 2     \* notify_observers calls under way at one time

(***************************************************************************)
(* Program constants.                                                      *)
(***************************************************************************)
NOTIFICATION_DELAY == 888

None == "None"
Set == "set"

\* select.poll(None) / win32event.INFINITE
INFINITE == -1

\* inotify event bits, a mask is the set of its bits; a & b is a \cap b
TRIGGER_MASK ==
    {"IN_ATTRIB", "IN_CLOSE_WRITE", "IN_CREATE", "IN_DELETE", "IN_MODIFY",
     "IN_MOVED_FROM", "IN_MOVED_TO"}

ADD_MASK == TRIGGER_MASK \cup {"IN_EXCL_UNLINK", "IN_ONLYDIR"}

\* The masks the kernel delivers in this model: two that carry trigger bits
\* (one with the extra IN_ISDIR bit) and one that is always deliverable and
\* carries none.
EventMasks ==
    {{"IN_MODIFY"}, {"IN_DELETE", "IN_ISDIR"}, {"IN_IGNORED"}}

IN_IGNORED == {"IN_IGNORED"}

\* errno values add_watch / rm_watch / poll can fail with
ENOSPC == "ENOSPC"
ENOENT == "ENOENT"
ENOTDIR == "ENOTDIR"
EINVAL == "EINVAL"
EINTR == "EINTR"
EACCES == "EACCES"
OK == "OK"

(***************************************************************************)
(* Paths of the per-directory backend: a path is the sequence of its       *)
(* components.                                                             *)
(***************************************************************************)
Worktree == <<"w">>

\* gitcmds.tracked_files() returns a subset of these worktree-relative paths
Files == {<<"f">>, <<"a", "f">>, <<"b", "f">>}

\* os.path.join(a, b) for a relative b
Join(a, b) == a \o b

\* os.path.dirname
Dirname(p) == SubSeq(p, 1, Len(p) - 1)

\* the set comprehension of refresh(): parent directories of tracked files
TrackedDirs(files) == {Dirname(Join(Worktree, path)) : path \in files}

Dirs == TrackedDirs(Files)

\* the tracked-file lists of the revisions the working tree is switched
\* between in this model
Revisions ==
    {{<<"f">>}, {<<"a", "f">>, <<"b", "f">>}, {<<"b", "f">>, <<"f">>}}

\* the directories that are removed, replaced or created in this model
VolatileDirs == {<<"w", "b">>}

(***************************************************************************)
(* Paths of the recursive backend: a path is the sequence of its           *)
(* characters.  "G" stands for the name of the metadata directory, "W" for *)
(* the absolute path of the working tree.                                  *)
(***************************************************************************)
RawWorktree == <<"W">>                  \* core.abspath(git.worktree())
RawGitDir == <<"W", "/", "G">>          \* git.git_dir()

\* the relative paths FILE_NOTIFY_INFORMATION reports in this model: the
\* metadata directory, a file in it, and a sibling whose name starts with
\* the metadata directory's name
W32Paths == {<<"G">>, <<"g", "\\", "x">>, <<"g", "x">>}

\* str.lower on one character
Lower(c) ==
    CASE c = "W" -> "w"
      [] c = "G" -> "g"
      [] c = "X" -> "x"
      [] OTHER -> c

\* _Win32Thread._transform_path: path.replace('\\', '/').lower()
transform_path(path) ==
    [i \in 1..Len(path) |-> Lower(IF path[i] = "\\" THEN "/" ELSE path[i])]

\* str.startswith
StartsWith(str, prefix) ==
    /\ Len(prefix) <= Len(str)
    /\ SubSeq(str, 1, Len(prefix)) = prefix

\* the fields set in _Win32Thread.__init__
worktree == transform_path(RawWorktree)
git_dir == transform_path(RawGitDir)

InotifyHandles == {"inotify_fd", "pipe_r", "pipe_w"}
Win32Handles == {"stop_event", "dir_handle", "hEvent"}
Handles == InotifyHandles \cup Win32Handles

VARIABLES
    \* _Monitor
    thread_class,   \* "inotify", "win32" or "none" (None)
    thread,         \* Monitor._thread: None or Set
    ctl,            \* position of the controller's current call
    ctl_ops,        \* calls made so far
    \* _BaseThread
    running,        \* _running
    pending,        \* _pending
    pc,             \* position of the backend thread in run()
    timeout,        \* local timeout of the run loop
    elapsed,        \* ms spent in the current wait
    \* _InotifyThread
    lock,           \* _lock: "free", "thr" or "ctl"
    inotify_fd,     \* _inotify_fd: None or Set
    pipe_r,         \* _pipe_r
    pipe_w,         \* _pipe_w
    wd_map,         \* _wd_map: directory -> watch descriptor
    events,         \* local events of run(): the fds poll() reported ready
    watched_dirs,   \* locals of refresh()
    tracked_dirs,
    to_remove,      \* paths the first loop of refresh() has still to visit
    to_add,         \* paths the second loop has still to visit
    \* _Win32Thread
    stop_event,     \* _stop_event: None or Set
    dir_handle,     \* _dir_handle: None or Set
    overlapped,     \* _overlapped: None, "no_event" (hEvent unset) or Set
    buffer,         \* _buffer: the records of the latest completed read
    rc,             \* local rc of run()
    results,        \* records _handle_results has still to visit
    \* kernel and file system
    pipe_bytes,     \* bytes written to the wake pipe and not read
    inq,            \* the inotify queue: masks of the events not yet read
    kwatch,         \* live kernel watches: watch descriptor -> the
                    \* directory watched, under the path it has now
    next_wd,        \* next watch descriptor the kernel hands out
    stop_signalled, \* state of the stop event object
    read_done,      \* state of the overlapped event object
    outstanding,    \* asynchronous reads issued and not completed
    fs,             \* directory -> "dir", "file" or "absent"
    tracked,        \* what gitcmds.tracked_files() returns now
    acquired,       \* OS handles this backend instance opened
    released,       \* handle -> number of times it was closed
    n_events,       \* events delivered so far
    n_faults,       \* system-call failures so far
    n_world,        \* file-system and tracked-list changes so far
    \* observation of the run (history variables)
    notifications,  \* files_changed signals emitted by this instance
    quiet,          \* ms since the thread last handled raw events
    relevant_seen,  \* a relevant raw event was delivered to this instance
    notified,       \* a signal was emitted since a relevant event was handled
    burst,          \* handlings of relevant events the next signal coalesces
    out_of_wds,     \* the watch limit was hit in this instance
    pass_result,    \* how the latest reconciliation pass ended
    rm_calls,       \* paths rm_watch was called for in that pass
    add_calls,      \* paths add_watch was called for in that pass
    same_tracked,   \* a pass read the tracked list, unchanged since
    second,         \* the pass follows another with the list unchanged
    disturbed,      \* fs or tracked changed while the pass ran
    teardown,       \* what the finally clause of _Win32Thread.run did
    \* Observable (observable.py)
    notification_enabled,   \* Observable.notification_enabled
    observers,      \* Observable.observers: message -> set of observers
    calls,          \* the notify_observers calls under way, innermost last:
                    \* what each has still to visit, who was registered
                    \* when it was made, and whom it has invoked
    at_call,        \* observers registered when the call that ended last
                    \* was made
    invocations,    \* observer -> invocations by that call
    notify_result,  \* how that call ended
    added_again,    \* add_observer was called for a registered observer
    observable_ops  \* calls made on the Observable so far

observable_vars == <<notification_enabled, observers, calls, at_call, invocations, notify_result, added_again,
                     observable_ops>>

\* what no step of the monitor changes
static_vars == <<thread_class, observable_vars>>
monitor_vars == <<static_vars, thread, ctl, ctl_ops>>
flag_vars == <<running, pending>>
loop_vars == <<pc, timeout, elapsed>>
fd_vars == <<inotify_fd, pipe_r, pipe_w>>
os_vars == <<acquired, released>>
pass_vars == <<watched_dirs, tracked_dirs, to_remove, to_add>>
inotify_vars == <<lock, fd_vars, wd_map, events, pass_vars>>
ikernel_vars == <<pipe_bytes, inq, kwatch, next_wd>>
win_vars == <<stop_event, dir_handle, overlapped, buffer, rc, results>>
wkernel_vars == <<stop_signalled, read_done, outstanding>>
world_vars == <<fs, tracked>>
obs_vars == <<notifications, quiet, relevant_seen, notified, burst,
             out_of_wds>>
env_ops == <<n_events, n_faults, n_world>>
pass_obs == <<pass_result, rm_calls, add_calls, same_tracked, second,
              disturbed>>

vars == <<monitor_vars, flag_vars, loop_vars, inotify_vars, ikernel_vars,
          win_vars, wkernel_vars, world_vars, os_vars, env_ops, obs_vars,
          pass_obs, teardown>>

\* everything but the Observable
backend_vars == <<thread_class, thread, ctl, ctl_ops, flag_vars, loop_vars,
                  inotify_vars, ikernel_vars, win_vars, wkernel_vars,
                  world_vars, os_vars, env_ops, obs_vars, pass_obs,
                  teardown>>

Min(a, b) == IF a < b THEN a ELSE b

EmptyMap == [k \in {} |-> 0]

\* dict without one key (dict.pop)
Without(m, k) == [x \in DOMAIN m \ {k} |-> m[x]]

\* dict with one key set
With(m, k, v) == [x \in DOMAIN m \cup {k} |-> IF x = k THEN v ELSE m[x]]

\* the messages and the observer callables the Observable is used with
Messages == {"m1", "m2"}
Observers == {"o1", "o2", "o3"}

(***************************************************************************)
(* State after _create_instance(): a Monitor with one of the thread        *)
(* classes or none, no thread yet.  The working tree holds every           *)
(* directory.                                                              *)
(***************************************************************************)
Init ==
    /\ thread_class \in {"inotify", "win32", "none"}
    /\ thread = None
    /\ ctl = "idle"
    /\ ctl_ops = 0
    /\ running = FALSE
    /\ pending = FALSE
    /\ pc = "none"
    /\ timeout = INFINITE
    /\ elapsed = 0
    /\ lock = "free"
    /\ inotify_fd = None
    /\ pipe_r = None
    /\ pipe_w = None
    /\ wd_map = EmptyMap
    /\ events = {}
    /\ watched_dirs = {}
    /\ tracked_dirs = {}
    /\ to_remove = {}
    /\ to_add = {}
    /\ stop_event = None
    /\ dir_handle = None
    /\ overlapped = None
    /\ buffer = <<>>
    /\ rc = None
    /\ results = <<>>
    /\ pipe_bytes = 0
    /\ inq = <<>>
    /\ kwatch = EmptyMap
    /\ next_wd = 1
    /\ stop_signalled = FALSE
    /\ read_done = FALSE
    /\ outstanding = 0
    /\ fs = [d \in Dirs |-> "dir"]
    /\ tracked \in Revisions
    /\ acquired = {}
    /\ released = [h \in Handles |-> 0]
    /\ n_events = 0
    /\ n_faults = 0
    /\ n_world = 0
    /\ notifications = 0
    /\ quiet = 0
    /\ relevant_seen = FALSE
    /\ notified = FALSE
    /\ burst = 0
    /\ out_of_wds = FALSE
    /\ pass_result = "none"
    /\ rm_calls = {}
    /\ add_calls = {}
    /\ same_tracked = FALSE
    /\ second = "no"
    /\ disturbed = FALSE
    /\ teardown = <<>>
    \* Observable.__init__
    /\ notification_enabled = TRUE
    /\ observers = [m \in Messages |-> {}]
    /\ calls = <<>>
    /\ at_call = {}
    /\ invocations = [o \in Observers |-> 0]
    /\ notify_result = "none"
    /\ added_again = FALSE
    /\ observable_ops = 0

(***************************************************************************)
(* _BaseThread                                                             *)
(***************************************************************************)

\* a notify that emits the signal and leaves _pending set
notify_KeepsPending ==
    /\ pending' = pending
    /\ notifications' = notifications + 1
    /\ notified' = TRUE

\* _BaseThread.notify: clear _pending, emit files_changed
notify ==
    /\ pending' = FALSE
    /\ notifications' = notifications + 1
    /\ notified' = TRUE

\* a run loop that always waits without a timeout
ChooseTimeout_Never(p) == INFINITE

\* the timeout the run loops choose from _pending
ChooseTimeout(p) == IF p THEN NOTIFICATION_DELAY ELSE INFINITE

\* the fields of a thread object before __init__ has run / after the object
\* is dropped, and the history of the instance
NoInstance ==
    /\ pending' = FALSE
    /\ timeout' = INFINITE
    /\ elapsed' = 0
    /\ lock' = "free"
    /\ inotify_fd' = None
    /\ pipe_r' = None
    /\ pipe_w' = None
    /\ wd_map' = EmptyMap
    /\ events' = {}
    /\ watched_dirs' = {}
    /\ tracked_dirs' = {}
    /\ to_remove' = {}
    /\ to_add' = {}
    /\ stop_event' = None
    /\ dir_handle' = None
    /\ overlapped' = None
    /\ buffer' = <<>>
    /\ rc' = None
    /\ results' = <<>>
    /\ pipe_bytes' = 0
    /\ inq' = <<>>
    /\ kwatch' = EmptyMap
    /\ next_wd' = 1
    /\ stop_signalled' = FALSE
    /\ read_done' = FALSE
    /\ outstanding' = 0
    /\ acquired' = {}
    /\ released' = [h \in Handles |-> 0]
    /\ notifications' = 0
    /\ quiet' = 0
    /\ relevant_seen' = FALSE
    /\ notified' = FALSE
    /\ burst' = 0
    /\ out_of_wds' = FALSE
    /\ pass_result' = "none"
    /\ rm_calls' = {}
    /\ add_calls' = {}
    /\ same_tracked' = FALSE
    /\ second' = "no"
    /\ disturbed' = FALSE
    /\ teardown' = <<>>

(***************************************************************************)
(* _Monitor                                                                *)
(***************************************************************************)
\* a start() that does not test the thread class
Start_NoClassTest ==
    /\ ctl = "idle"
    /\ ctl_ops < MaxCtlOps
    /\ thread = None
    /\ ctl_ops' = ctl_ops + 1
    /\ thread' = Set
    /\ running' = TRUE
    /\ pc' = IF thread_class = "inotify" THEN "setup" ELSE "w_setup"
    /\ NoInstance
    /\ UNCHANGED <<static_vars, ctl, world_vars, env_ops>>

\* _Monitor.start; its caller keeps the precondition (not already started).
\* The thread object is created (_running = True, _pending = False, no
\* handles, empty _wd_map) and started.
Start ==
    /\ ctl = "idle"
    /\ ctl_ops < MaxCtlOps
    /\ thread = None
    /\ ctl_ops' = ctl_ops + 1
    /\ IF thread_class # "none"
       THEN /\ thread' = Set
            /\ running' = TRUE
            /\ pc' = IF thread_class = "inotify" THEN "setup" ELSE "w_setup"
            /\ NoInstance
            /\ UNCHANGED <<static_vars, ctl, world_vars, env_ops>>
       ELSE UNCHANGED <<static_vars, thread, ctl, flag_vars, loop_vars,
                        inotify_vars, ikernel_vars, win_vars, wkernel_vars,
                        world_vars, os_vars, env_ops, obs_vars, pass_obs,
                        teardown>>

\* _Monitor.stop up to the first statement of the thread's stop():
\* self._running = False.  With no thread class the call returns at once.
StopBegin ==
    /\ ctl = "idle"
    /\ ctl_ops < MaxCtlOps
    /\ thread_class = "none" \/ thread # None
    /\ ctl_ops' = ctl_ops + 1
    /\ IF thread_class # "none"
       THEN /\ running' = FALSE
            /\ ctl' = "stop_lock"
       ELSE UNCHANGED <<running, ctl>>
    /\ UNCHANGED <<static_vars, thread, pending, loop_vars, inotify_vars,
                   ikernel_vars, win_vars, wkernel_vars, world_vars, os_vars,
                   env_ops, obs_vars, pass_obs, teardown>>

\* a stop() that takes the lock and writes nothing to the wake pipe
InotifyStopWake_NoByte ==
    /\ ctl = "stop_lock"
    /\ thread_class = "inotify"
    /\ lock = "free"
    /\ ctl' = "stop_wait"
    /\ UNCHANGED <<static_vars, thread, ctl_ops, flag_vars, loop_vars,
                   inotify_vars, ikernel_vars, win_vars, wkernel_vars,
                   world_vars, os_vars, env_ops, obs_vars, pass_obs,
                   teardown>>

\* _InotifyThread.stop: with self._lock: write one byte to the wake pipe
\* if it exists
InotifyStopWake ==
    /\ ctl = "stop_lock"
    /\ thread_class = "inotify"
    /\ lock = "free"
    /\ pipe_bytes' = IF pipe_w # None THEN pipe_bytes + 1 ELSE pipe_bytes
    /\ ctl' = "stop_wait"
    /\ UNCHANGED <<static_vars, thread, ctl_ops, flag_vars, loop_vars,
                   inotify_vars, inq, kwatch, next_wd, win_vars,
                   wkernel_vars, world_vars, os_vars, env_ops, obs_vars,
                   pass_obs, teardown>>

\* _Win32Thread.stop: with self._stop_event_lock: SetEvent on the stop
\* event if it exists
Win32StopWake ==
    /\ ctl = "stop_lock"
    /\ thread_class = "win32"
    /\ stop_signalled' = (stop_signalled \/ stop_event # None)
    /\ ctl' = "stop_wait"
    /\ UNCHANGED <<static_vars, thread, ctl_ops, flag_vars, loop_vars,
                   inotify_vars, ikernel_vars, win_vars, read_done,
                   outstanding, world_vars, os_vars, env_ops, obs_vars,
                   pass_obs, teardown>>

\* self.wait() in the thread's stop(), self._thread.wait() and
\* self._thread = None in _Monitor.stop: returns once run() has ended; the
\* thread object is dropped
StopJoin ==
    /\ ctl = "stop_wait"
    /\ pc = "done"
    /\ thread' = None
    /\ ctl' = "idle"
    /\ running' = FALSE
    /\ pc' = "none"
    /\ NoInstance
    /\ UNCHANGED <<static_vars, ctl_ops, world_vars, env_ops>>

\* _Monitor.refresh: forwards to the thread's refresh() if there is a thread;
\* _BaseThread.refresh (the recursive backend's) does nothing
RefreshCall ==
    /\ ctl = "idle"
    /\ ctl_ops < MaxCtlOps
    /\ ctl_ops' = ctl_ops + 1
    /\ ctl' = IF thread # None /\ thread_class = "inotify"
              THEN "refresh_lock" ELSE "idle"
    /\ UNCHANGED <<static_vars, thread, flag_vars, loop_vars, inotify_vars,
                   ikernel_vars, win_vars, wkernel_vars, world_vars, os_vars,
                   env_ops, obs_vars, pass_obs, teardown>>

(***************************************************************************)
(* _InotifyThread.refresh: one reconciliation pass, run by the backend     *)
(* thread ("thr", from run()) or by the controller ("ctl", from            *)
(* Monitor.refresh()), under self._lock.                                   *)
(***************************************************************************)

\* a first loop that visits every watched path
ToRemove_All(watched, desired) == watched

\* the paths the first loop visits: watched_dirs - tracked_dirs
ToRemove(watched, desired) == watched \ desired

\* a second loop that visits every tracked directory
ToAdd_All(watched, desired) == desired

\* the paths the second loop visits: tracked_dirs - watched_dirs
ToAdd(watched, desired) == desired \ watched

AtRefresh(who) ==
    IF who = "thr" THEN pc = "refresh" ELSE ctl = "refresh_lock"

\* the kernel queues an event (its limit, fs.inotify.max_queued_events, is
\* far above the number of events of a run of this model)
Enqueue(q, mask) == Append(q, mask)

\* the events are queued on the watch of directory d, if there is one
OnWatchOf(d, evs) ==
    IF \E w \in DOMAIN kwatch : kwatch[w] = d THEN evs ELSE <<>>

\* what the kernel queues on the watch of the parent directory when an
\* entry that was kind goes, and when an entry that is kind comes
Gone(kind) ==
    CASE kind = "dir" -> <<{"IN_DELETE", "IN_ISDIR"}>>
      [] kind = "file" -> <<{"IN_DELETE"}>>
      [] OTHER -> <<>>

Made(kind) ==
    CASE kind = "dir" -> <<{"IN_CREATE", "IN_ISDIR"}>>
      [] kind = "file" -> <<{"IN_CREATE"}, {"IN_CLOSE_WRITE"}>>
      [] OTHER -> <<>>

\* the events of directory d changing from one kind to another: the watch
\* on a directory that goes ends with IN_IGNORED, and the watch on its
\* parent reports the entry going and coming
DirEvents(d, from, to) ==
    (IF from = "dir" THEN OnWatchOf(d, <<{"IN_IGNORED"}>>) ELSE <<>>)
        \o OnWatchOf(Dirname(d), Gone(from) \o Made(to))

\* some event of the sequence carries a bit of _TRIGGER_MASK
HasTrigger(evs) ==
    \E i \in 1..Len(evs) : \E bit \in evs[i] : bit \in TRIGGER_MASK

\* watch descriptors of the live kernel watches on directory d
WatchesOn(d) == {w \in DOMAIN kwatch : kwatch[w] = d}

\* refresh() goes on to the next path (left is TRUE) or is left: normally,
\* by return, by break, or by an exception ("raised"), which ends run()
\* through its finally clause when the backend thread made the call
PassGoesOn(who, left, result) ==
    /\ lock' = IF left THEN who ELSE "free"
    /\ pass_result' = IF left \/ result # "running" THEN result
                      ELSE "complete"
    /\ IF who = "thr"
       THEN /\ pc' = CASE left -> pc
                       [] result = "raised" -> "finally"
                       [] OTHER -> "loop"
            /\ UNCHANGED ctl
       ELSE /\ ctl' = IF left THEN "refresh" ELSE "idle"
            /\ UNCHANGED pc

\* with self._lock: return if there is no inotify descriptor, else compute
\* the two sets the loops run over
PassBegin(who) ==
    /\ AtRefresh(who)
    /\ lock = "free"
    /\ rm_calls' = {}
    /\ add_calls' = {}
    /\ disturbed' = FALSE
    /\ IF inotify_fd = None
       THEN /\ PassGoesOn(who, FALSE, "skipped")
            /\ second' = "no"
            /\ UNCHANGED <<pass_vars, same_tracked>>
       ELSE /\ watched_dirs' = DOMAIN wd_map
            /\ tracked_dirs' = TrackedDirs(tracked)
            /\ to_remove' = ToRemove(DOMAIN wd_map, TrackedDirs(tracked))
            /\ to_add' = ToAdd(DOMAIN wd_map, TrackedDirs(tracked))
            /\ PassGoesOn(who, to_remove' # {} \/ to_add' # {}, "running")
            /\ second' = CASE ~same_tracked -> "no"
                           [] pass_result = "complete" -> "after_clean"
                           [] OTHER -> "after_any"
            /\ same_tracked' = TRUE
    /\ UNCHANGED <<static_vars, thread, ctl_ops, flag_vars, timeout,
                   elapsed, fd_vars, wd_map, events, ikernel_vars, win_vars,
                   wkernel_vars, world_vars, os_vars, env_ops, obs_vars,
                   teardown>>

\* the errno inotify.rm_watch fails with, or OK: EINVAL when the kernel has
\* dropped the watch already; any other failure is an injected fault
RmWatchResults(wd) ==
    (IF wd \in DOMAIN kwatch THEN {OK} ELSE {EINVAL})
        \cup (IF n_faults < MaxFaults THEN {EACCES} ELSE {})

\* a first loop that re-raises every failure of rm_watch, EINVAL too
PassRemove_RaisesEINVAL(who, path, res) ==
    /\ lock = who
    /\ path \in to_remove
    /\ res \in RmWatchResults(wd_map[path])
    /\ wd_map' = Without(wd_map, path)
    /\ rm_calls' = rm_calls \cup {path}
    /\ n_faults' = IF res = EACCES THEN n_faults + 1 ELSE n_faults
    /\ UNCHANGED <<n_events, n_world>>
    /\ IF res = OK
       THEN /\ kwatch' = Without(kwatch, wd_map[path])
            /\ inq' = Enqueue(inq, IN_IGNORED)
            /\ to_remove' = to_remove \ {path}
            /\ UNCHANGED to_add
            /\ PassGoesOn(who, to_remove' # {} \/ to_add # {}, pass_result)
       ELSE /\ UNCHANGED <<kwatch, inq>>
            /\ to_remove' = {}
            /\ to_add' = {}
            /\ PassGoesOn(who, FALSE, "raised")
    /\ UNCHANGED <<static_vars, thread, ctl_ops, flag_vars, timeout,
                   elapsed, fd_vars, events, watched_dirs, tracked_dirs,
                   pipe_bytes, next_wd, win_vars, wkernel_vars, world_vars,
                   os_vars, obs_vars, add_calls, same_tracked, second,
                   disturbed, teardown>>

\* one iteration of the first loop: pop the path, rm_watch its descriptor;
\* a successful rm_watch makes the kernel queue IN_IGNORED
PassRemove(who, path, res) ==
    /\ lock = who
    /\ path \in to_remove
    /\ res \in RmWatchResults(wd_map[path])
    /\ wd_map' = Without(wd_map, path)
    /\ rm_calls' = rm_calls \cup {path}
    /\ n_faults' = IF res = EACCES THEN n_faults + 1 ELSE n_faults
    /\ UNCHANGED <<n_events, n_world>>
    /\ IF res = OK
       THEN /\ kwatch' = Without(kwatch, wd_map[path])
            /\ inq' = Enqueue(inq, IN_IGNORED)
       ELSE UNCHANGED <<kwatch, inq>>
    /\ IF res \in {OK, EINVAL}
       THEN /\ to_remove' = to_remove \ {path}
            /\ UNCHANGED to_add
            /\ PassGoesOn(who, to_remove' # {} \/ to_add # {}, pass_result)
       ELSE /\ to_remove' = {}
            /\ to_add' = {}
            /\ PassGoesOn(who, FALSE, "raised")
    /\ UNCHANGED <<static_vars, thread, ctl_ops, flag_vars, timeout,
                   elapsed, fd_vars, events, watched_dirs, tracked_dirs,
                   pipe_bytes, next_wd, win_vars, wkernel_vars, world_vars,
                   os_vars, obs_vars, add_calls, same_tracked, second,
                   disturbed, teardown>>

\* the errno inotify.add_watch(fd, path, _ADD_MASK) fails with, or OK:
\* IN_ONLYDIR makes a non-directory fail with ENOTDIR; the watch limit and
\* any other failure are injected faults
AddWatchResults(path) ==
    (CASE fs[path] = "dir" -> {OK}
       [] fs[path] = "file" -> {ENOTDIR}
       [] OTHER -> {ENOENT})
        \cup (IF n_faults < MaxFaults THEN {ENOSPC, EACCES} ELSE {})

\* the descriptor add_watch returns: the one of the live watch on the
\* directory if there is one, else a new one
AddWatchWd(path) ==
    IF WatchesOn(path) # {} THEN CHOOSE w \in WatchesOn(path) : TRUE
    ELSE next_wd

\* what the call Interaction.log_safe(msg) of _log_out_of_wds_message does:
\* cola/interaction.py decides, and the other call of this module names the
\* method safe_log; an Interaction without log_safe makes the call raise
\* AttributeError
LogSafeOutcomes == {"returns", "raises"}

\* an iteration of the second loop that re-raises ENOENT and ENOTDIR like
\* any other errno
PassAdd_RaisesENOENT(who, path, res) ==
    /\ lock = who
    /\ to_remove = {}
    /\ path \in to_add
    /\ res \in AddWatchResults(path)
    /\ add_calls' = add_calls \cup {path}
    /\ n_faults' = IF res \in {ENOSPC, EACCES} THEN n_faults + 1
                 ELSE n_faults
    /\ UNCHANGED <<n_events, n_world>>
    /\ UNCHANGED to_remove
    /\ CASE res = OK ->
              /\ wd_map' = With(wd_map, path, AddWatchWd(path))
              /\ kwatch' = With(kwatch, AddWatchWd(path), path)
              /\ next_wd' = IF WatchesOn(path) # {} THEN next_wd
                            ELSE next_wd + 1
              /\ to_add' = to_add \ {path}
              /\ PassGoesOn(who, to_add' # {}, pass_result)
              /\ UNCHANGED <<running, out_of_wds>>
         [] res = ENOSPC ->
              \* _log_out_of_wds_message(), which returns or raises; then
              \* self._running = False; break
              /\ out_of_wds' = TRUE
              /\ to_add' = {}
              /\ \E logged \in LogSafeOutcomes :
                    IF logged = "returns"
                    THEN /\ running' = FALSE
                         /\ PassGoesOn(who, FALSE, "enospc")
                    ELSE /\ UNCHANGED running
                         /\ PassGoesOn(who, FALSE, "raised")
              /\ UNCHANGED <<wd_map, kwatch, next_wd>>
         [] OTHER ->
              /\ to_add' = {}
              /\ PassGoesOn(who, FALSE, "raised")
              /\ UNCHANGED <<wd_map, kwatch, next_wd, running, out_of_wds>>
    /\ UNCHANGED <<static_vars, thread, ctl_ops, pending, timeout, elapsed,
                   fd_vars, events, watched_dirs, tracked_dirs, pipe_bytes,
                   inq, win_vars, wkernel_vars, world_vars, os_vars,
                   notifications, quiet, relevant_seen, notified, burst,
                   rm_calls,
                   same_tracked, second, disturbed, teardown>>

\* one iteration of the second loop
PassAdd(who, path, res) ==
    /\ lock = who
    /\ to_remove = {}
    /\ path \in to_add
    /\ res \in AddWatchResults(path)
    /\ add_calls' = add_calls \cup {path}
    /\ n_faults' = IF res \in {ENOSPC, EACCES} THEN n_faults + 1
                 ELSE n_faults
    /\ UNCHANGED <<n_events, n_world>>
    /\ UNCHANGED to_remove
    /\ CASE res = OK ->
              /\ wd_map' = With(wd_map, path, AddWatchWd(path))
              /\ kwatch' = With(kwatch, AddWatchWd(path), path)
              /\ next_wd' = IF WatchesOn(path) # {} THEN next_wd
                            ELSE next_wd + 1
              /\ to_add' = to_add \ {path}
              /\ PassGoesOn(who, to_add' # {}, pass_result)
              /\ UNCHANGED <<running, out_of_wds>>
         [] res = ENOSPC ->
              \* _log_out_of_wds_message(), which returns or raises; then
              \* self._running = False; break
              /\ out_of_wds' = TRUE
              /\ to_add' = {}
              /\ \E logged \in LogSafeOutcomes :
                    IF logged = "returns"
                    THEN /\ running' = FALSE
                         /\ PassGoesOn(who, FALSE, "enospc")
                    ELSE /\ UNCHANGED running
                         /\ PassGoesOn(who, FALSE, "raised")
              /\ UNCHANGED <<wd_map, kwatch, next_wd>>
         [] res \in {ENOENT, ENOTDIR} ->
              /\ to_add' = to_add \ {path}
              /\ PassGoesOn(who, to_add' # {}, "ignored")
              /\ UNCHANGED <<wd_map, kwatch, next_wd, running, out_of_wds>>
         [] OTHER ->
              /\ to_add' = {}
              /\ PassGoesOn(who, FALSE, "raised")
              /\ UNCHANGED <<wd_map, kwatch, next_wd, running, out_of_wds>>
    /\ UNCHANGED <<static_vars, thread, ctl_ops, pending, timeout, elapsed,
                   fd_vars, events, watched_dirs, tracked_dirs, pipe_bytes,
                   inq, win_vars, wkernel_vars, world_vars, os_vars,
                   notifications, quiet, relevant_seen, notified, burst,
                   rm_calls,
                   same_tracked, second, disturbed, teardown>>

(***************************************************************************)
(* _InotifyThread.run                                                      *)
(***************************************************************************)

\* with self._lock: inotify.init() and os.pipe(), either of which can raise;
\* then the two poll registrations
InotifySetup(res) ==
    /\ pc = "setup"
    /\ lock = "free"
    /\ res \in {"ok"} \cup (IF n_faults < MaxFaults
                            THEN {"init_raises", "pipe_raises"} ELSE {})
    /\ n_faults' = IF res = "ok" THEN n_faults ELSE n_faults + 1
    /\ UNCHANGED <<n_events, n_world>>
    /\ inotify_fd' = IF res = "init_raises" THEN None ELSE Set
    /\ pipe_r' = IF res = "ok" THEN Set ELSE None
    /\ pipe_w' = IF res = "ok" THEN Set ELSE None
    /\ acquired' = CASE res = "ok" -> InotifyHandles
                     [] res = "pipe_raises" -> {"inotify_fd"}
                     [] OTHER -> {}
    /\ pc' = IF res = "ok" THEN "refresh" ELSE "finally"
    /\ UNCHANGED <<monitor_vars, flag_vars, timeout, elapsed, lock, wd_map,
                   events, pass_vars, ikernel_vars, win_vars, wkernel_vars,
                   world_vars, released, obs_vars, pass_obs, teardown>>

\* a run loop that takes the lock before it enters poll() and keeps it
InotifyLoop_HoldsLock ==
    /\ pc = "loop"
    /\ lock = "free"
    /\ lock' = "thr"
    /\ IF running
       THEN /\ pc' = "poll"
            /\ timeout' = ChooseTimeout(pending)
       ELSE /\ pc' = "finally"
            /\ UNCHANGED timeout
    /\ UNCHANGED <<monitor_vars, flag_vars, elapsed, fd_vars, wd_map, events,
                   pass_vars, ikernel_vars, win_vars, wkernel_vars,
                   world_vars, os_vars, env_ops, obs_vars, pass_obs,
                   teardown>>

\* while self._running: choose the timeout from _pending and enter poll()
InotifyLoop ==
    /\ pc = "loop"
    /\ IF running
       THEN /\ pc' = "poll"
            /\ timeout' = ChooseTimeout(pending)
       ELSE /\ pc' = "finally"
            /\ UNCHANGED timeout
    /\ UNCHANGED <<monitor_vars, flag_vars, elapsed, inotify_vars,
                   ikernel_vars, win_vars, wkernel_vars, world_vars, os_vars,
                   env_ops, obs_vars, pass_obs, teardown>>

\* the registered descriptors that are readable
Ready ==
    (IF inq # <<>> THEN {"inotify_fd"} ELSE {})
        \cup (IF pipe_bytes > 0 THEN {"pipe_r"} ELSE {})

\* poll() returns the readable descriptors
PollReady ==
    /\ pc = "poll"
    /\ Ready # {}
    /\ events' = Ready
    /\ pc' = "polled"
    /\ timeout' = INFINITE
    /\ elapsed' = 0
    /\ UNCHANGED <<monitor_vars, flag_vars, lock, fd_vars, wd_map, pass_vars,
                   ikernel_vars, win_vars, wkernel_vars, world_vars, os_vars,
                   env_ops, obs_vars, pass_obs, teardown>>

\* poll(timeout) returns the empty list once the timeout has run out with
\* nothing readable
PollTimeout ==
    /\ pc = "poll"
    /\ Ready = {}
    /\ timeout # INFINITE
    /\ elapsed >= timeout
    /\ events' = {}
    /\ pc' = "polled"
    /\ timeout' = INFINITE
    /\ elapsed' = 0
    /\ UNCHANGED <<monitor_vars, flag_vars, lock, fd_vars, wd_map, pass_vars,
                   ikernel_vars, win_vars, wkernel_vars, world_vars, os_vars,
                   env_ops, obs_vars, pass_obs, teardown>>

\* poll() raises OSError: EINTR continues the loop, anything else leaves
\* run() through the finally clause
PollRaises(errno) ==
    /\ pc = "poll"
    /\ n_faults < MaxFaults
    /\ errno \in {EINTR, EACCES}
    /\ n_faults' = n_faults + 1
    /\ UNCHANGED <<n_events, n_world>>
    /\ pc' = IF errno = EINTR THEN "loop" ELSE "finally"
    /\ timeout' = INFINITE
    /\ elapsed' = 0
    /\ UNCHANGED <<monitor_vars, flag_vars, inotify_vars, ikernel_vars,
                   win_vars, wkernel_vars, world_vars, os_vars, obs_vars,
                   pass_obs, teardown>>

\* if not self._running: break
InotifyCheckRunning ==
    /\ pc = "polled"
    /\ pc' = IF running THEN "dispatch" ELSE "finally"
    /\ events' = IF running THEN events ELSE {}
    /\ UNCHANGED <<monitor_vars, flag_vars, timeout, elapsed, lock, fd_vars,
                   wd_map, pass_vars, ikernel_vars, win_vars, wkernel_vars,
                   world_vars, os_vars, env_ops, obs_vars, pass_obs,
                   teardown>>

\* what the run is observed against: an event is relevant when its mask
\* has a trigger bit
RelevantMask(mask) == \E bit \in mask : bit \in TRIGGER_MASK

\* mask & self._TRIGGER_MASK
IsTrigger(mask) == (mask \cap TRIGGER_MASK) # {}

\* a _handle_events that computes _pending from the events read alone
handle_events_Resets(q, p) == \E i \in 1..Len(q) : IsTrigger(q[i])

\* _handle_events: _pending after the loop over the events read
handle_events(q, p) == p \/ \E i \in 1..Len(q) : IsTrigger(q[i])

\* a dispatch that runs a reconciliation pass after handling raw events
InotifyDispatch_Refreshes ==
    /\ pc = "dispatch"
    /\ pc' = IF events = {} THEN "loop" ELSE "refresh"
    /\ events' = {}
    /\ IF events = {}
       THEN /\ notify
            /\ UNCHANGED <<inq, quiet, burst>>
       ELSE IF "inotify_fd" \in events
       THEN /\ pending' = handle_events(inq, pending)
            /\ inq' = <<>>
            /\ quiet' = 0
            /\ notified' = (notified /\ ~\E i \in 1..Len(inq) :
                                           RelevantMask(inq[i]))
            /\ burst' = CASE ~\E i \in 1..Len(inq) : RelevantMask(inq[i])
                                 -> burst
                           [] notified -> 1
                           [] OTHER -> burst + 1
            /\ UNCHANGED notifications
       ELSE UNCHANGED <<pending, inq, quiet, notified, burst,
                        notifications>>
    /\ UNCHANGED <<monitor_vars, running, timeout, elapsed, lock, fd_vars,
                   wd_map, pass_vars, pipe_bytes, kwatch, next_wd, win_vars,
                   wkernel_vars, world_vars, os_vars, env_ops, relevant_seen,
                   out_of_wds, pass_obs, teardown>>

\* elif not events: self.notify(); else: _handle_events() if the inotify
\* descriptor is among the ready ones
InotifyDispatch ==
    /\ pc = "dispatch"
    /\ pc' = "loop"
    /\ events' = {}
    /\ IF events = {}
       THEN /\ notify
            /\ UNCHANGED <<inq, quiet, burst>>
       ELSE IF "inotify_fd" \in events
       THEN /\ pending' = handle_events(inq, pending)
            /\ inq' = <<>>
            /\ quiet' = 0
            /\ notified' = (notified /\ ~\E i \in 1..Len(inq) :
                                           RelevantMask(inq[i]))
            /\ burst' = CASE ~\E i \in 1..Len(inq) : RelevantMask(inq[i])
                                 -> burst
                           [] notified -> 1
                           [] OTHER -> burst + 1
            /\ UNCHANGED notifications
       ELSE UNCHANGED <<pending, inq, quiet, notified, burst,
                        notifications>>
    /\ UNCHANGED <<monitor_vars, running, timeout, elapsed, lock, fd_vars,
                   wd_map, pass_vars, pipe_bytes, kwatch, next_wd, win_vars,
                   wkernel_vars, world_vars, os_vars, env_ops, relevant_seen,
                   out_of_wds, pass_obs, teardown>>

\* a finally clause that closes the descriptors without taking the lock
InotifyFinally_Unlocked ==
    /\ pc = "finally"
    /\ released' = [h \in Handles |->
                      IF \/ h = "inotify_fd" /\ inotify_fd # None
                         \/ h \in {"pipe_r", "pipe_w"} /\ pipe_r # None
                      THEN released[h] + 1 ELSE released[h]]
    /\ inotify_fd' = None
    /\ pipe_r' = None
    /\ pipe_w' = None
    /\ kwatch' = IF inotify_fd # None THEN EmptyMap ELSE kwatch
    /\ inq' = IF inotify_fd # None THEN <<>> ELSE inq
    /\ pipe_bytes' = IF pipe_r # None THEN 0 ELSE pipe_bytes
    /\ pc' = "done"
    /\ UNCHANGED <<monitor_vars, flag_vars, timeout, elapsed, lock, wd_map,
                   events, pass_vars, next_wd, win_vars, wkernel_vars,
                   world_vars, acquired, env_ops, obs_vars, pass_obs,
                   teardown>>

\* a finally clause that closes the pipe ends without the None test
InotifyFinally_PipeUnguarded ==
    /\ pc = "finally"
    /\ lock = "free"
    /\ released' = [h \in Handles |->
                      IF \/ h = "inotify_fd" /\ inotify_fd # None
                         \/ h \in {"pipe_r", "pipe_w"}
                      THEN released[h] + 1 ELSE released[h]]
    /\ inotify_fd' = None
    /\ pipe_r' = None
    /\ pipe_w' = None
    /\ kwatch' = IF inotify_fd # None THEN EmptyMap ELSE kwatch
    /\ inq' = IF inotify_fd # None THEN <<>> ELSE inq
    /\ pipe_bytes' = 0
    /\ pc' = "done"
    /\ UNCHANGED <<monitor_vars, flag_vars, timeout, elapsed, lock, wd_map,
                   events, pass_vars, next_wd, win_vars, wkernel_vars,
                   world_vars, acquired, env_ops, obs_vars, pass_obs,
                   teardown>>

\* finally: with self._lock: close what was opened and reset the fields.
\* Closing the inotify descriptor ends its watches and its queue.
InotifyFinally ==
    /\ pc = "finally"
    /\ lock = "free"
    /\ released' = [h \in Handles |->
                      IF \/ h = "inotify_fd" /\ inotify_fd # None
                         \/ h \in {"pipe_r", "pipe_w"} /\ pipe_r # None
                      THEN released[h] + 1 ELSE released[h]]
    /\ inotify_fd' = None
    /\ pipe_r' = None
    /\ pipe_w' = None
    /\ kwatch' = IF inotify_fd # None THEN EmptyMap ELSE kwatch
    /\ inq' = IF inotify_fd # None THEN <<>> ELSE inq
    /\ pipe_bytes' = IF pipe_r # None THEN 0 ELSE pipe_bytes
    /\ pc' = "done"
    /\ UNCHANGED <<monitor_vars, flag_vars, timeout, elapsed, lock, wd_map,
                   events, pass_vars, next_wd, win_vars, wkernel_vars,
                   world_vars, acquired, env_ops, obs_vars, pass_obs,
                   teardown>>

(***************************************************************************)
(* _Win32Thread.run                                                        *)
(***************************************************************************)

\* The first statement of the try block: with self._stop_event_lock, create
\* the stop event, which can raise.
Win32SetupEvent(ok) ==
    /\ pc = "w_setup"
    /\ ok \/ n_faults < MaxFaults
    /\ n_faults' = IF ok THEN n_faults ELSE n_faults + 1
    /\ UNCHANGED <<n_events, n_world>>
    /\ stop_event' = IF ok THEN Set ELSE None
    /\ acquired' = IF ok THEN {"stop_event"} ELSE {}
    /\ pc' = IF ok THEN "w_setup_dir" ELSE "w_finally"
    /\ UNCHANGED <<monitor_vars, flag_vars, timeout, elapsed, inotify_vars,
                   ikernel_vars, dir_handle, overlapped, buffer, rc, results,
                   wkernel_vars, world_vars, released, obs_vars, pass_obs,
                   teardown>>

\* The statements of the try block after that and before the loop, made
\* without the lock.  Each acquisition can raise; n is the number of
\* acquisitions of run() that succeeded: the stop event, the directory
\* handle, the OVERLAPPED object (after the buffer), its event.
Win32Setup(n) ==
    /\ pc = "w_setup_dir"
    /\ n \in 1..4
    /\ n = 4 \/ n_faults < MaxFaults
    /\ n_faults' = IF n = 4 THEN n_faults ELSE n_faults + 1
    /\ UNCHANGED <<n_events, n_world>>
    /\ dir_handle' = IF n >= 2 THEN Set ELSE None
    /\ overlapped' = CASE n = 4 -> Set
                       [] n = 3 -> "no_event"
                       [] OTHER -> None
    /\ acquired' = acquired
                     \cup (IF n >= 2 THEN {"dir_handle"} ELSE {})
                     \cup (IF n = 4 THEN {"hEvent"} ELSE {})
    /\ pc' = IF n = 4 THEN "w_loop" ELSE "w_finally"
    /\ UNCHANGED <<monitor_vars, flag_vars, timeout, elapsed, inotify_vars,
                   ikernel_vars, stop_event, buffer, rc, results,
                   wkernel_vars, world_vars, released, obs_vars, pass_obs,
                   teardown>>

\* while self._running: issue ReadDirectoryChangesW (which resets the
\* overlapped event), choose the timeout and enter WaitForMultipleObjects
Win32Loop ==
    /\ pc = "w_loop"
    /\ IF running
       THEN /\ outstanding' = outstanding + 1
            /\ read_done' = FALSE
            /\ timeout' = ChooseTimeout(pending)
            /\ pc' = "w_wait"
       ELSE /\ pc' = "w_finally"
            /\ UNCHANGED <<outstanding, read_done, timeout>>
    /\ UNCHANGED <<monitor_vars, flag_vars, elapsed, inotify_vars,
                   ikernel_vars, win_vars, stop_signalled, world_vars,
                   os_vars, env_ops, obs_vars, pass_obs, teardown>>

\* WaitForMultipleObjects([hEvent, stop_event], False, timeout) returns the
\* index of the first signalled object
Win32WaitSignalled ==
    /\ pc = "w_wait"
    /\ read_done \/ stop_signalled
    /\ rc' = IF read_done THEN "WAIT_OBJECT_0" ELSE "WAIT_OBJECT_0+1"
    /\ pc' = "w_waited"
    /\ timeout' = INFINITE
    /\ elapsed' = 0
    /\ UNCHANGED <<monitor_vars, flag_vars, inotify_vars, ikernel_vars,
                   stop_event, dir_handle, overlapped, buffer, results,
                   wkernel_vars, world_vars, os_vars, env_ops, obs_vars,
                   pass_obs, teardown>>

\* ... or WAIT_TIMEOUT once the timeout has run out with neither signalled
Win32WaitTimeout ==
    /\ pc = "w_wait"
    /\ ~read_done /\ ~stop_signalled
    /\ timeout # INFINITE
    /\ elapsed >= timeout
    /\ rc' = "WAIT_TIMEOUT"
    /\ pc' = "w_waited"
    /\ timeout' = INFINITE
    /\ elapsed' = 0
    /\ UNCHANGED <<monitor_vars, flag_vars, inotify_vars, ikernel_vars,
                   stop_event, dir_handle, overlapped, buffer, results,
                   wkernel_vars, world_vars, os_vars, env_ops, obs_vars,
                   pass_obs, teardown>>

\* if not self._running: break
Win32CheckRunning ==
    /\ pc = "w_waited"
    /\ pc' = IF running THEN "w_dispatch" ELSE "w_finally"
    /\ rc' = IF running THEN rc ELSE None
    /\ UNCHANGED <<monitor_vars, flag_vars, timeout, elapsed, inotify_vars,
                   ikernel_vars, stop_event, dir_handle, overlapped, buffer,
                   results, wkernel_vars, world_vars, os_vars, env_ops,
                   obs_vars, pass_obs, teardown>>

\* what the run is observed against: the records that name the metadata
\* directory or something in it
MetadataRecords == {<<"G">>, <<"g", "\\", "x">>}

\* elif rc == WAIT_TIMEOUT: self.notify(); else: _handle_results(), whose
\* GetOverlappedResult(..., True) waits for the read to complete and whose
\* FILE_NOTIFY_INFORMATION decodes the records
Win32Dispatch ==
    /\ pc = "w_dispatch"
    /\ rc' = None
    /\ IF rc = "WAIT_TIMEOUT"
       THEN /\ notify
            /\ pc' = "w_loop"
            /\ UNCHANGED <<results, quiet, burst>>
       ELSE /\ read_done
            /\ results' = buffer
            /\ pc' = "w_results"
            /\ quiet' = 0
            /\ notified' = (notified /\ \A i \in 1..Len(buffer) :
                                           buffer[i] \in MetadataRecords)
            /\ burst' = CASE \A i \in 1..Len(buffer) :
                                  buffer[i] \in MetadataRecords -> burst
                           [] notified -> 1
                           [] OTHER -> burst + 1
            /\ UNCHANGED <<pending, notifications>>
    /\ UNCHANGED <<monitor_vars, running, timeout, elapsed, inotify_vars,
                   ikernel_vars, stop_event, dir_handle, overlapped, buffer,
                   wkernel_vars, world_vars, os_vars, env_ops, relevant_seen,
                   out_of_wds, pass_obs, teardown>>

\* a test that compares with the metadata directory's path alone
IsRelevantPath_NoPrefix(rel) ==
    worktree \o <<"/">> \o transform_path(rel) # git_dir

\* the test of _handle_results on one record's path
IsRelevantPath(rel) ==
    LET path == worktree \o <<"/">> \o transform_path(rel)
    IN  path # git_dir /\ ~StartsWith(path, git_dir \o <<"/">>)

\* an iteration of _handle_results that assigns _pending from the record
\* alone
Win32Result_Assigns ==
    /\ pc = "w_results"
    /\ IF results = <<>> \/ ~running
       THEN /\ pc' = "w_loop"
            /\ results' = <<>>
            /\ UNCHANGED pending
       ELSE /\ pending' = IsRelevantPath(Head(results))
            /\ results' = Tail(results)
            /\ UNCHANGED pc
    /\ UNCHANGED <<monitor_vars, running, timeout, elapsed, inotify_vars,
                   ikernel_vars, stop_event, dir_handle, overlapped, buffer,
                   rc, wkernel_vars, world_vars, os_vars, env_ops, obs_vars,
                   pass_obs, teardown>>

\* one iteration of the loop of _handle_results
Win32Result ==
    /\ pc = "w_results"
    /\ IF results = <<>> \/ ~running
       THEN /\ pc' = "w_loop"
            /\ results' = <<>>
            /\ UNCHANGED pending
       ELSE /\ pending' = (pending \/ IsRelevantPath(Head(results)))
            /\ results' = Tail(results)
            /\ UNCHANGED pc
    /\ UNCHANGED <<monitor_vars, running, timeout, elapsed, inotify_vars,
                   ikernel_vars, stop_event, dir_handle, overlapped, buffer,
                   rc, wkernel_vars, world_vars, os_vars, env_ops, obs_vars,
                   pass_obs, teardown>>

\* finally, first part: with self._stop_event_lock, close the stop event
\* if it was created and reset the field
Win32FinallyEvent ==
    /\ pc = "w_finally"
    /\ teardown' =
         (IF stop_event # None THEN <<"CloseHandle stop_event">> ELSE <<>>)
    /\ released' = [h \in Handles |->
                      IF h = "stop_event" /\ stop_event # None
                      THEN released[h] + 1 ELSE released[h]]
    /\ stop_event' = None
    /\ stop_signalled' = FALSE
    /\ pc' = "w_finally_dir"
    /\ UNCHANGED <<monitor_vars, flag_vars, timeout, elapsed, inotify_vars,
                   ikernel_vars, dir_handle, overlapped, buffer, rc, results,
                   read_done, outstanding, world_vars, acquired, env_ops,
                   obs_vars, pass_obs>>

\* a finally clause that closes the overlapped event before it cancels the
\* read and closes the directory handle
Win32Finally_EventFirst ==
    /\ pc = "w_finally_dir"
    /\ teardown' = teardown
         \o (IF overlapped = Set THEN <<"CloseHandle hEvent">> ELSE <<>>)
         \o (IF dir_handle # None
             THEN <<"CancelIo", "CloseHandle dir_handle">> ELSE <<>>)
    /\ released' = [h \in Handles |->
                      IF \/ h = "dir_handle" /\ dir_handle # None
                         \/ h = "hEvent" /\ overlapped = Set
                      THEN released[h] + 1 ELSE released[h]]
    /\ outstanding' = IF dir_handle # None THEN 0 ELSE outstanding
    /\ read_done' = FALSE
    /\ pc' = "done"
    /\ UNCHANGED <<monitor_vars, flag_vars, timeout, elapsed, inotify_vars,
                   ikernel_vars, win_vars, stop_signalled, world_vars,
                   acquired, env_ops, obs_vars, pass_obs>>

\* finally, after the lock is released: CancelIo and close the directory
\* handle; close the overlapped event; each only if it was created
Win32Finally ==
    /\ pc = "w_finally_dir"
    /\ teardown' = teardown
         \o (IF dir_handle # None
             THEN <<"CancelIo", "CloseHandle dir_handle">> ELSE <<>>)
         \o (IF overlapped = Set THEN <<"CloseHandle hEvent">> ELSE <<>>)
    /\ released' = [h \in Handles |->
                      IF \/ h = "dir_handle" /\ dir_handle # None
                         \/ h = "hEvent" /\ overlapped = Set
                      THEN released[h] + 1 ELSE released[h]]
    /\ outstanding' = IF dir_handle # None THEN 0 ELSE outstanding
    /\ read_done' = FALSE
    /\ pc' = "done"
    /\ UNCHANGED <<monitor_vars, flag_vars, timeout, elapsed, inotify_vars,
                   ikernel_vars, win_vars, stop_signalled, world_vars,
                   acquired, env_ops, obs_vars, pass_obs>>

(***************************************************************************)
(* Environment                                                             *)
(***************************************************************************)

\* the kernel queues an event of a live watch (IN_IGNORED needs none)
RawEvent(mask) ==
    /\ inotify_fd # None
    /\ n_events < MaxEvents
    /\ Len(inq) < MaxQueue
    /\ mask \in EventMasks
    /\ mask = IN_IGNORED \/ DOMAIN kwatch # {}
    /\ inq' = Append(inq, mask)
    /\ n_events' = n_events + 1
    /\ UNCHANGED <<n_faults, n_world>>
    /\ relevant_seen' = (relevant_seen \/ RelevantMask(mask))
    /\ UNCHANGED <<monitor_vars, flag_vars, loop_vars, inotify_vars,
                   pipe_bytes, kwatch, next_wd, win_vars, wkernel_vars,
                   world_vars, os_vars, notifications, quiet, notified,
                   burst, out_of_wds, pass_obs, teardown>>

\* sequences over S of length at most n
SeqsUpTo(S, n) == UNION {[1..k -> S] : k \in 0..n}

\* an outstanding read completes with a batch of change records (none when
\* the changes did not fit the buffer)
Win32Change(batch) ==
    /\ dir_handle # None
    /\ pc \notin {"done", "none"}
    /\ outstanding > 0
    /\ n_events < MaxEvents
    /\ batch \in SeqsUpTo(W32Paths, MaxBatch)
    /\ outstanding' = outstanding - 1
    /\ read_done' = TRUE
    /\ buffer' = batch
    /\ n_events' = n_events + 1
    /\ UNCHANGED <<n_faults, n_world>>
    /\ relevant_seen' = (relevant_seen \/ \E i \in 1..Len(batch) :
                                              batch[i] \notin MetadataRecords)
    /\ UNCHANGED <<monitor_vars, flag_vars, loop_vars, inotify_vars,
                   ikernel_vars, stop_event, dir_handle, overlapped, rc,
                   results, stop_signalled, world_vars, os_vars,
                   notifications, quiet, notified, burst, out_of_wds,
                   pass_obs, teardown>>

\* time passes while a notification is pending: the current wait and the
\* quiet period grow
Tick ==
    /\ pending
    /\ pc \notin {"none", "done"}
    /\ \/ quiet < NOTIFICATION_DELAY
       \/ pc \in {"poll", "w_wait"} /\ elapsed < NOTIFICATION_DELAY
    /\ quiet' = Min(quiet + TickMs, NOTIFICATION_DELAY)
    /\ elapsed' = IF pc \in {"poll", "w_wait"}
                  THEN Min(elapsed + TickMs, NOTIFICATION_DELAY)
                  ELSE elapsed
    /\ UNCHANGED <<monitor_vars, flag_vars, pc, timeout, inotify_vars,
                   ikernel_vars, win_vars, wkernel_vars, world_vars, os_vars,
                   env_ops, notifications, relevant_seen, notified, burst,
                   out_of_wds, pass_obs, teardown>>

\* a directory is removed (rmdir), replaced by a file or created (anew);
\* the kernel watches on a directory end with it, and the kernel queues
\* the events of the change on the watches concerned
FsChange(d, kind) ==
    /\ thread_class = "inotify"
    /\ n_world < MaxWorldOps
    /\ d \in VolatileDirs
    /\ kind \in {"dir", "file", "absent"}
    /\ kind # fs[d]
    /\ fs' = [fs EXCEPT ![d] = kind]
    /\ n_world' = n_world + 1
    /\ UNCHANGED <<n_events, n_faults>>
    /\ kwatch' = [w \in DOMAIN kwatch \ WatchesOn(d) |-> kwatch[w]]
    /\ inq' = inq \o DirEvents(d, fs[d], kind)
    /\ relevant_seen' = (relevant_seen
                           \/ HasTrigger(DirEvents(d, fs[d], kind)))
    /\ disturbed' = (disturbed \/ lock # "free")
    /\ UNCHANGED <<monitor_vars, flag_vars, loop_vars, inotify_vars,
                   pipe_bytes, next_wd, win_vars, wkernel_vars, tracked,
                   os_vars, notifications, quiet, notified, burst,
                   out_of_wds, pass_result, rm_calls, add_calls,
                   same_tracked, second, teardown>>

\* where os.rename moves directory d: a sibling that is not tracked
MovedTo(d) == Join(Dirname(d), <<"c">>)

\* what the kernel queues when directory d is renamed to MovedTo(d): the
\* watch on the parent of both reports the entry going and coming; the
\* watch on d itself reports nothing (IN_MOVE_SELF is not in _ADD_MASK)
RenameEvents(d) ==
    OnWatchOf(Dirname(d), <<{"IN_MOVED_FROM", "IN_ISDIR"},
                            {"IN_MOVED_TO", "IN_ISDIR"}>>)

\* a directory is renamed away: its path no longer exists, but a kernel
\* watch on it stays alive, with the directory, under the new path, so
\* add_watch of the old path fails with ENOENT while rm_watch of its
\* descriptor still succeeds
FsRename(d) ==
    /\ thread_class = "inotify"
    /\ n_world < MaxWorldOps
    /\ d \in VolatileDirs
    /\ fs[d] = "dir"
    /\ fs' = [fs EXCEPT ![d] = "absent"]
    /\ n_world' = n_world + 1
    /\ UNCHANGED <<n_events, n_faults>>
    /\ kwatch' = [w \in DOMAIN kwatch |->
                     IF kwatch[w] = d THEN MovedTo(d) ELSE kwatch[w]]
    /\ inq' = inq \o RenameEvents(d)
    /\ relevant_seen' = (relevant_seen \/ HasTrigger(RenameEvents(d)))
    /\ disturbed' = (disturbed \/ lock # "free")
    /\ UNCHANGED <<monitor_vars, flag_vars, loop_vars, inotify_vars,
                   pipe_bytes, next_wd, win_vars, wkernel_vars, tracked,
                   os_vars, notifications, quiet, notified, burst,
                   out_of_wds, pass_result, rm_calls, add_calls,
                   same_tracked, second, teardown>>

\* the tracked-file list changes (a git operation)
TrackedChange(files) ==
    /\ thread_class = "inotify"
    /\ n_world < MaxWorldOps
    /\ files \in Revisions
    /\ files # tracked
    /\ tracked' = files
    /\ n_world' = n_world + 1
    /\ UNCHANGED <<n_events, n_faults>>
    /\ disturbed' = (disturbed \/ lock # "free")
    /\ same_tracked' = FALSE
    /\ UNCHANGED <<monitor_vars, flag_vars, loop_vars, inotify_vars,
                   ikernel_vars, win_vars, wkernel_vars, fs, os_vars,
                   obs_vars, pass_result, rm_calls, add_calls, second,
                   teardown>>

\* the directories a switch from the current list to files leaves without a
\* tracked file
Emptied(files) ==
    {d \in VolatileDirs :
        /\ d \in TrackedDirs(tracked) \ TrackedDirs(files)
        /\ fs[d] = "dir"}

\* the events of a switch to files for one path of the tree: the file is
\* deleted if it is no longer tracked, its directory is removed if that
\* empties it, and the file is written if it is newly tracked
FileEvents(files, path) ==
    LET d == Dirname(Join(Worktree, path))
    IN  (IF path \in tracked \ files
         THEN OnWatchOf(d, <<{"IN_DELETE"}>>) ELSE <<>>)
        \o (IF d \in Emptied(files) THEN DirEvents(d, "dir", "absent")
            ELSE <<>>)
        \o (IF path \in files \ tracked /\ fs[d] = "dir"
            THEN OnWatchOf(d, <<{"IN_CREATE"}, {"IN_MODIFY"},
                                {"IN_CLOSE_WRITE"}>>)
            ELSE <<>>)

\* the events of a switch to files, in the order git visits the paths
CheckoutEvents(files) ==
    FileEvents(files, <<"a", "f">>) \o FileEvents(files, <<"b", "f">>)
        \o FileEvents(files, <<"f">>)

\* a git operation that changes the tracked-file list, deletes and writes
\* the files concerned and removes the directories it empties (the target
\* of a watch is removed before refresh() comes to rm_watch it)
Checkout(files) ==
    /\ thread_class = "inotify"
    /\ n_world < MaxWorldOps
    /\ files \in Revisions
    /\ files # tracked
    /\ Emptied(files) # {}
    /\ tracked' = files
    /\ fs' = [d \in Dirs |-> IF d \in Emptied(files) THEN "absent" ELSE fs[d]]
    /\ n_world' = n_world + 1
    /\ UNCHANGED <<n_events, n_faults>>
    /\ kwatch' = [w \in {x \in DOMAIN kwatch : kwatch[x] \notin Emptied(files)}
                    |-> kwatch[w]]
    /\ inq' = inq \o CheckoutEvents(files)
    /\ relevant_seen' = (relevant_seen \/ HasTrigger(CheckoutEvents(files)))
    /\ disturbed' = (disturbed \/ lock # "free")
    /\ same_tracked' = FALSE
    /\ UNCHANGED <<monitor_vars, flag_vars, loop_vars, inotify_vars,
                   pipe_bytes, next_wd, win_vars, wkernel_vars, os_vars,
                   notifications, quiet, notified, burst, out_of_wds,
                   pass_result, rm_calls, add_calls, second, teardown>>

(***************************************************************************)
(* The system                                                              *)
(***************************************************************************)

\* the controller: the calls of Monitor.start/stop/refresh, one at a time
CtlNext ==
    \/ Start
    \/ StopBegin
    \/ InotifyStopWake
    \/ Win32StopWake
    \/ StopJoin
    \/ RefreshCall
    \/ PassBegin("ctl")
    \/ \E path \in Dirs, res \in {OK, EINVAL, EACCES} :
           PassRemove("ctl", path, res)
    \/ \E path \in Dirs, res \in {OK, ENOSPC, ENOENT, ENOTDIR, EACCES} :
           PassAdd("ctl", path, res)

\* the backend thread of the per-directory backend, but for its waits
\* running out and its faults
InotifyNext ==
    \/ InotifySetup("ok")
    \/ PassBegin("thr")
    \/ \E path \in Dirs, res \in {OK, EINVAL} : PassRemove("thr", path, res)
    \/ \E path \in Dirs, res \in {OK, ENOENT, ENOTDIR} :
           PassAdd("thr", path, res)
    \/ InotifyLoop
    \/ PollReady
    \/ InotifyCheckRunning
    \/ InotifyDispatch
    \/ InotifyFinally

\* the backend thread of the recursive backend, likewise
Win32Next ==
    \/ Win32SetupEvent(TRUE)
    \/ Win32Setup(4)
    \/ Win32Loop
    \/ Win32WaitSignalled
    \/ Win32CheckRunning
    \/ Win32Dispatch
    \/ Win32Result
    \/ Win32FinallyEvent
    \/ Win32Finally

\* the waits of either backend running out
TimeoutNext ==
    \/ PollTimeout
    \/ Win32WaitTimeout

\* failures of the system calls the backend thread makes
FaultNext ==
    \/ \E res \in {"init_raises", "pipe_raises"} : InotifySetup(res)
    \/ \E path \in Dirs : PassRemove("thr", path, EACCES)
    \/ \E path \in Dirs, res \in {ENOSPC, EACCES} : PassAdd("thr", path, res)
    \/ \E errno \in {EINTR, EACCES} : PollRaises(errno)
    \/ Win32SetupEvent(FALSE)
    \/ \E n \in 1..3 : Win32Setup(n)

EnvNext ==
    \/ \E mask \in EventMasks : RawEvent(mask)
    \/ \E batch \in SeqsUpTo(W32Paths, MaxBatch) : Win32Change(batch)
    \/ \E d \in VolatileDirs, kind \in {"dir", "file", "absent"} :
           FsChange(d, kind)
    \/ \E d \in VolatileDirs : FsRename(d)
    \/ \E files \in Revisions : TrackedChange(files)
    \/ \E files \in Revisions : Checkout(files)

Next ==
    \/ CtlNext
    \/ InotifyNext
    \/ Win32Next
    \/ TimeoutNext
    \/ FaultNext
    \/ EnvNext
    \/ Tick

Spec == Init /\ [][Next]_vars

\* The backend threads and the controller's stop() are scheduled: a step of
\* theirs that stays possible is taken.  Nothing is assumed of the
\* environment: no event need arrive, no wait need run out.
FairSpec ==
    /\ Spec
    /\ WF_vars(InotifyNext)
    /\ WF_vars(Win32Next)
    /\ WF_vars(InotifyStopWake)
    /\ WF_vars(Win32StopWake)
    /\ WF_vars(StopJoin)

\* ... and time passes: a wait with a timeout runs out
TimedFairSpec ==
    /\ FairSpec
    /\ WF_vars(TimeoutNext)
    /\ WF_vars(Tick)

\* the steps of a reconciliation pass the caller of Monitor.refresh() makes
\* once the call is made, but for its faults
CtlPass ==
    \/ PassBegin("ctl")
    \/ \E path \in Dirs, res \in {OK, EINVAL} : PassRemove("ctl", path, res)
    \/ \E path \in Dirs, res \in {OK, ENOENT, ENOTDIR} :
           PassAdd("ctl", path, res)

\* ... and the caller of Monitor.refresh() is scheduled too: a refresh()
\* under way takes its next step
PassFairSpec ==
    /\ FairSpec
    /\ WF_vars(CtlPass)

(***************************************************************************)
(* Observable (observable.py): a registry of observers per message and     *)
(* the delivery of one message to them.  The calls are made by the users   *)
(* of the class, at any time, a callback under way included; a              *)
(* notify_observers call made by a callback runs to its end before the     *)
(* loop of the call that invoked the callback goes on.                     *)
(***************************************************************************)

\* set(self.observers.get(message, set())): the set the loop iterates
CopyOf(obs, message) == obs[message]

\* the notify_observers call under way that was made last
Innermost == calls[Len(calls)]

\* the calls under way without the innermost
Outer == SubSeq(calls, 1, Len(calls) - 1)

add_observer(message, observer) ==
    /\ observable_ops < MaxObservableOps
    /\ observers' = [observers EXCEPT ![message] = @ \cup {observer}]
    /\ added_again' = (added_again \/ observer \in observers[message])
    /\ observable_ops' = observable_ops + 1
    /\ UNCHANGED <<notification_enabled, calls, at_call, invocations,
                   notify_result>>
    /\ UNCHANGED backend_vars

remove_observer(observer) ==
    /\ observable_ops < MaxObservableOps
    /\ observers' = [m \in Messages |-> observers[m] \ {observer}]
    /\ observable_ops' = observable_ops + 1
    /\ UNCHANGED <<notification_enabled, calls, at_call, invocations,
                   notify_result, added_again>>
    /\ UNCHANGED backend_vars

\* a user of the class assigns notification_enabled
SetEnabled(b) ==
    /\ observable_ops < MaxObservableOps
    /\ b # notification_enabled
    /\ notification_enabled' = b
    /\ observable_ops' = observable_ops + 1
    /\ UNCHANGED <<observers, calls, at_call, invocations, notify_result,
                   added_again>>
    /\ UNCHANGED backend_vars

\* notify_observers up to the loop: the early return, or the copy.  The
\* call is made from outside or by a callback of a call under way.
notify_observers(message) ==
    /\ observable_ops < MaxObservableOps
    /\ Len(calls) < MaxNesting
    /\ observable_ops' = observable_ops + 1
    /\ IF ~notification_enabled
       THEN /\ notify_result' = "disabled"
            /\ at_call' = observers[message]
            /\ invocations' = [o \in Observers |-> 0]
            /\ UNCHANGED calls
       ELSE /\ calls' = Append(calls,
                           [to_invoke |-> CopyOf(observers, message),
                            at_call |-> observers[message],
                            invocations |-> [o \in Observers |-> 0]])
            /\ UNCHANGED <<notify_result, at_call, invocations>>
    /\ UNCHANGED <<notification_enabled, observers, added_again>>
    /\ UNCHANGED backend_vars

\* one iteration of the loop of the innermost call: method(*args, **opts)
\* returns or raises; an exception leaves notify_observers
InvokeObserver(method, res) ==
    /\ calls # <<>>
    /\ method \in Innermost.to_invoke
    /\ LET invoked == [Innermost.invocations EXCEPT ![method] = @ + 1]
       IN  IF res = "raises"
           THEN /\ calls' = Outer
                /\ notify_result' = "raised"
                /\ at_call' = Innermost.at_call
                /\ invocations' = invoked
           ELSE /\ calls' = Append(Outer,
                               [to_invoke |-> Innermost.to_invoke \ {method},
                                at_call |-> Innermost.at_call,
                                invocations |-> invoked])
                /\ UNCHANGED <<notify_result, at_call, invocations>>
    /\ UNCHANGED <<notification_enabled, observers, added_again,
                   observable_ops>>
    /\ UNCHANGED backend_vars

\* the loop of the innermost call is exhausted: notify_observers returns
NotifyReturn ==
    /\ calls # <<>>
    /\ Innermost.to_invoke = {}
    /\ calls' = Outer
    /\ notify_result' = "returned"
    /\ at_call' = Innermost.at_call
    /\ invocations' = Innermost.invocations
    /\ UNCHANGED <<notification_enabled, observers, added_again,
                   observable_ops>>
    /\ UNCHANGED backend_vars

\* an Observable on its own: no monitor is started
ObservableInit ==
    /\ Init
    /\ thread_class = "none"
    /\ tracked = {<<"f">>}

ObservableNext ==
    \/ \E m \in Messages, o \in Observers : add_observer(m, o)
    \/ \E o \in Observers : remove_observer(o)
    \/ \E b \in BOOLEAN : SetEnabled(b)
    \/ \E m \in Messages : notify_observers(m)
    \/ \E o \in Observers, res \in {"returns", "raises"} :
          InvokeObserver(o, res)
    \/ NotifyReturn

ObservableSpec == ObservableInit /\ [][ObservableNext]_vars

(***************************************************************************)
(* Coalescing                                                              *)
(***************************************************************************)

\* C1: a files_changed notification is emitted only for a sequence of one
\* or more relevant raw events handled since the previous notification
\* (so one sequence gets one notification, never a second), and only once
\* a full _NOTIFICATION_DELAY has passed since the thread last handled a
\* raw event.
C1_OneNotificationAfterQuietGap ==
    [][notifications' = notifications + 1 =>
          /\ pending
          /\ burst >= 1
          /\ ~notified
          /\ quiet >= NOTIFICATION_DELAY]_vars

\* a sequence of two handlings of relevant events got its one notification
C1_Witness ==
    /\ notifications = 1
    /\ notified
    /\ burst >= 2
    /\ running

(***************************************************************************)
(* stop()                                                                  *)
(***************************************************************************)

\* C2: a call of Monitor.stop() returns, whatever the backend thread is
\* doing when it is made, without an event arriving or a wait running out.
C2_StopReturns == (ctl = "stop_lock") ~> (ctl = "idle")

\* stop() is waiting for a thread that is blocked in poll() without a
\* timeout, which the byte in the wake pipe is about to end
C2_Witness ==
    /\ ctl = "stop_wait"
    /\ pc = "poll"
    /\ timeout = INFINITE
    /\ inq = <<>>
    /\ pipe_bytes = 1

(***************************************************************************)
(* A pending notification                                                  *)
(***************************************************************************)

\* the backend thread has left its run loop, or there is none
Ended == pc \in {"finally", "w_finally", "w_finally_dir", "done", "none"}

\* C3, as stated: once a relevant event has set _pending, a files_changed
\* notification follows, for every interleaving of events with stop() and
\* refresh(); so, with no system call failing, run() never ends with
\* _pending still set (nothing could emit the notification after that).
C3_AsStated == (pc = "done" /\ n_faults = 0) => ~pending

\* C3, amended: once a relevant event has set _pending, a files_changed
\* notification follows unless the backend stops running first (stop() or
\* the watch limit clears _running, or run() ends on an error).
C3_NotifiedUnlessStopped == pending ~> (notified \/ ~running \/ Ended)

\* the notification of a burst was emitted while the controller was inside
\* a reconciliation pass of its own
C3_Witness ==
    /\ notified
    /\ notifications = 1
    /\ ctl = "refresh"
    /\ running
    /\ pc = "loop"

\* C4: while _pending is set every wait of the run loop has the coalescing
\* delay as its timeout; a wait that ran it out with the backend still
\* running is followed by the notification; and handling further events
\* never clears _pending (they postpone the notification, nothing else).
C4_GapEndsWithNotification ==
    /\ [](pc \in {"poll", "w_wait"} /\ pending
             => timeout = NOTIFICATION_DELAY)
    /\ [][/\ pc = "dispatch" /\ events = {} /\ pc' # pc
               => notifications' = notifications + 1
          /\ pc = "w_dispatch" /\ rc = "WAIT_TIMEOUT" /\ pc' # pc
               => notifications' = notifications + 1
          /\ pending /\ ~pending'
               => notifications' = notifications + 1 \/ pc' = "none"]_vars

\* two handlings of relevant events postponed the notification, then a wait
\* of a full delay ran out and the thread is about to emit it
C4_Witness ==
    /\ pc \in {"dispatch", "w_dispatch"}
    /\ events = {}
    /\ rc \in {None, "WAIT_TIMEOUT"}
    /\ pending
    /\ burst >= 2
    /\ running

(***************************************************************************)
(* The watch limit                                                         *)
(***************************************************************************)

\* C5: once add_watch has failed with ENOSPC in a reconciliation pass of
\* this backend, on either thread, no files_changed notification is emitted
\* any more.
C5_NoNotificationAfterENOSPC ==
    [][out_of_wds => ~(notifications' > notifications)]_vars

(***************************************************************************)
(* Reconciliation                                                          *)
(***************************************************************************)

\* the latest pass visited every path of both loops
PassEnded ==
    \/ pass_result = "complete"
    \/ pass_result = "ignored" /\ to_add = {}

\* C6: a pass that visited every path called rm_watch exactly for the
\* watched paths that are not tracked and add_watch exactly for the tracked
\* directories that were not watched; while a pass runs, a path both
\* watched and tracked keeps its entry in _wd_map.
C6_ExactDifference ==
    /\ [](PassEnded => /\ rm_calls = watched_dirs \ tracked_dirs
                       /\ add_calls = tracked_dirs \ watched_dirs)
    /\ [][lock # "free" =>
            \A path \in watched_dirs \cap tracked_dirs :
                /\ path \in DOMAIN wd_map'
                /\ wd_map'[path] = wd_map[path]]_vars

\* a pass removed a watch, added one and kept one
C6_Witness ==
    /\ pass_result = "complete"
    /\ rm_calls # {}
    /\ add_calls # {}
    /\ watched_dirs \cap tracked_dirs # {}

PassEndStep ==
    /\ \/ pc = "refresh" /\ pc' = "loop"
       \/ ctl \in {"refresh_lock", "refresh"} /\ ctl' = "idle"
    /\ pass_result' # "raised"

\* C8: when a pass has visited every path, with neither the file system
\* nor the tracked-file list changing while it ran, the keys of _wd_map are
\* exactly the parent directories of the tracked files that exist as
\* directories, and each key's descriptor is a live kernel watch on that
\* directory.
C8_WatchMapMatchesTree ==
    [][PassEndStep /\ PassEnded' /\ ~disturbed' =>
          /\ DOMAIN wd_map' =
                 {d \in TrackedDirs(tracked') : fs'[d] = "dir"}
          /\ \A d \in DOMAIN wd_map' :
                 /\ wd_map'[d] \in DOMAIN kwatch'
                 /\ kwatch'[wd_map'[d]] = d]_vars

(***************************************************************************)
(* Irrelevant events                                                       *)
(***************************************************************************)

\* C9: handling a batch of inotify events none of which has a trigger bit,
\* or a change record that names the metadata directory or something in
\* it, leaves _pending as it was; and no notification is emitted unless a
\* relevant event was delivered.
C9_IrrelevantEventsIgnored ==
    /\ [](notifications > 0 => relevant_seen)
    /\ [][/\ pc = "dispatch" /\ "inotify_fd" \in events
             /\ (\A i \in 1..Len(inq) : ~RelevantMask(inq[i]))
               => pending' = pending
          /\ pc = "w_results" /\ results # <<>>
             /\ Head(results) \in MetadataRecords
               => pending' = pending]_vars

\* the recursive backend has handled a batch of two records, one of them a
\* file in the metadata directory, and nothing is pending
C9_Witness ==
    /\ pc = "w_results"
    /\ results = <<>>
    /\ Len(buffer) = 2
    /\ buffer[1] = <<"g", "\\", "x">>
    /\ running
    /\ ~pending

(***************************************************************************)
(* OS handles                                                              *)
(***************************************************************************)

\* C10: no handle is closed twice or closed without having been opened,
\* and once run() has ended every handle it opened has been closed once.
C10_HandlesReleasedOnce ==
    /\ \A h \in Handles : /\ released[h] <= 1
                          /\ released[h] = 1 => h \in acquired
    /\ pc = "done" =>
           \A h \in Handles : released[h] = IF h \in acquired THEN 1 ELSE 0

\* run() has ended on os.pipe() raising: the inotify descriptor was closed,
\* the pipe ends, never opened, were skipped
C10_Witness ==
    /\ pc = "done"
    /\ acquired = {"inotify_fd"}
    /\ released["inotify_fd"] = 1
    /\ released["pipe_r"] = 0

(***************************************************************************)
(* Failures of rm_watch and add_watch                                      *)
(***************************************************************************)

\* the step is an iteration of the first loop of refresh(), for path
RmStep(path) == path \in to_remove /\ rm_calls' = rm_calls \cup {path}
                  /\ lock # "free" /\ path \notin rm_calls

\* C11: an rm_watch that fails with EINVAL (the kernel has dropped the
\* watch already) drops the path from _wd_map and the pass goes on with
\* the other paths of both loops; an rm_watch that fails with another
\* errno ends the pass there with the exception, which ends run() when the
\* backend thread made the call and returns to the caller of
\* Monitor.refresh() otherwise.
C11_RmWatchEINVALSwallowed ==
    [][\A path \in Dirs :
         /\ RmStep(path) /\ wd_map[path] \notin DOMAIN kwatch
               /\ n_faults' = n_faults
              => /\ path \notin DOMAIN wd_map'
                 /\ to_remove' = to_remove \ {path}
                 /\ to_add' = to_add
                 /\ pass_result' # "raised"
                 /\ lock' = (IF to_remove' # {} \/ to_add' # {}
                             THEN lock ELSE "free")
                 /\ pc' \in {pc, "loop"}
         /\ RmStep(path) /\ n_faults' > n_faults
              => /\ pass_result' = "raised"
                 /\ lock' = "free"
                 /\ lock = "thr" => pc' = "finally"
                 /\ lock = "ctl" => ctl' = "idle"]_vars

\* a pass has ended normally that called rm_watch for a directory removed
\* before the pass began
C11_Witness ==
    /\ PassEnded
    /\ ~disturbed
    /\ n_faults = 0
    /\ \E d \in rm_calls : fs[d] = "absent" /\ d \notin DOMAIN wd_map
    /\ add_calls # {}

\* C12: once a reconciliation pass has ended on an unexpected failure of
\* rm_watch or add_watch, whichever thread ran it, the backend thread
\* terminates (and, with C2 and C10, a later stop() returns and the handles
\* are released).
C12_RaisedPassEndsThread ==
    (pass_result = "raised") ~> (pc \in {"done", "none"})

(***************************************************************************)
(* refresh() and the life of the handles                                   *)
(***************************************************************************)

\* C13: while a reconciliation pass is under way the inotify descriptor is
\* open, before and after each of its rm_watch and add_watch calls; and a
\* refresh() of the controller that finds no descriptor (before setup,
\* after teardown) returns at once: no watch call, _wd_map and the kernel's
\* watches as they were.
C13_PassOnOpenDescriptor ==
    /\ [](lock # "free" => inotify_fd # None)
    /\ [][/\ rm_calls' # rm_calls \/ add_calls' # add_calls
               => \/ inotify_fd # None /\ inotify_fd' # None
                  \/ rm_calls' = {} /\ add_calls' = {}
          /\ ctl = "refresh_lock" /\ ctl' # ctl /\ inotify_fd = None
               => /\ ctl' = "idle"
                  /\ pass_result' = "skipped"
                  /\ rm_calls' = {} /\ add_calls' = {}
                  /\ wd_map' = wd_map
                  /\ kwatch' = kwatch]_vars

\* the controller is inside a pass, has made a watch call, and the backend
\* thread has left its loop and waits for the lock to close its descriptors
C13_Witness ==
    /\ lock = "ctl"
    /\ pc = "finally"
    /\ inotify_fd # None
    /\ add_calls # {}
    /\ to_add # {}

\* C14: the backend thread never holds the lock while it is in poll(), and
\* a call of Monitor.refresh() returns (or raises) without an event
\* arriving or a wait running out.
C14_RefreshReturns ==
    /\ [](pc \in {"poll", "polled", "dispatch"} => lock # "thr")
    /\ (ctl \in {"refresh_lock", "refresh"}) ~> (ctl = "idle")

\* the controller is inside a pass while the backend thread is blocked in
\* poll() without a timeout and with nothing to read
C14_Witness ==
    /\ ctl = "refresh"
    /\ pc = "poll"
    /\ timeout = INFINITE
    /\ inq = <<>>
    /\ pipe_bytes = 0
    /\ running

(***************************************************************************)
(* A Monitor without a backend                                             *)
(***************************************************************************)

\* C15: with no thread class, start(), stop() and refresh() can be called
\* in any order (none of them fails) and none of them has an effect: no
\* thread is created, _thread stays None, nothing runs, opens a handle or
\* emits a notification.
C15_NoBackendNoOps ==
    thread_class = "none" =>
        /\ thread = None
        /\ ctl = "idle"
        /\ pc = "none"
        /\ ~running
        /\ acquired = {}
        /\ notifications = 0
        /\ ctl_ops < MaxCtlOps =>
               ENABLED Start /\ ENABLED StopBegin /\ ENABLED RefreshCall

\* several calls have been made on a Monitor without a thread class
C15_Witness ==
    /\ thread_class = "none"
    /\ ctl_ops >= 2
    /\ thread = None

(***************************************************************************)
(* Observers                                                               *)
(***************************************************************************)

\* a notify_observers call made with notification enabled has ended, by a
\* return or by an exception
Delivered == notify_result \in {"returned", "raised"}

\* C16: whenever a notify_observers call made with notification enabled
\* has ended, every observer registered for the message at the call was
\* invoked exactly once by it (none was skipped, none invoked twice), and
\* no other observer was invoked
C16_AsStated ==
    Delivered =>
        \A o \in Observers :
            invocations[o] = IF o \in at_call THEN 1 ELSE 0

(***************************************************************************)
(* The pending flag                                                        *)
(***************************************************************************)

\* C17: while a backend instance lives, _pending goes from true to false
\* only in a step that emits files_changed, files_changed is emitted only
\* by a step that starts with _pending true and clears it, and _pending is
\* true only if a relevant event was handled since the previous
\* notification (or since start); so every notification follows at least
\* one relevant event handled since the previous one.
C17_PendingClearedOnlyByNotify ==
    /\ [][pc' # "none" =>
            /\ (pending /\ ~pending') <=> (notifications' = notifications + 1)
            /\ notifications' # notifications => pending]_vars
    /\ [](pending => burst >= 1 /\ ~notified)

\* the instance emitted two notifications, the second after a further
\* relevant event, and its flag is clear again
C17_Witness ==
    /\ notifications = 2
    /\ ~pending
    /\ notified
    /\ pc \in {"loop", "w_loop"}

(***************************************************************************)
(* add_watch on a path that is gone                                        *)
(***************************************************************************)

\* the step is an iteration of the second loop of refresh(), for path
AddStep(path) == path \in to_add /\ add_calls' = add_calls \cup {path}
                   /\ lock # "free" /\ path \notin add_calls

\* C18: an add_watch that fails with ENOENT or ENOTDIR (the path is absent
\* or is not a directory) leaves _wd_map as it was, without the path, and
\* leaves _running alone; no exception leaves refresh(): the pass goes on
\* with the paths not yet visited, or ends normally, with the backend thread
\* back in its loop; and an add_watch of the same pass on a path that is a
\* directory enters the path in _wd_map with a live watch on it.
C18_AddWatchRaceIgnored ==
    [][\A path \in Dirs :
         /\ AddStep(path) /\ fs[path] # "dir" /\ n_faults' = n_faults
              => /\ wd_map' = wd_map
                 /\ path \notin DOMAIN wd_map'
                 /\ to_add' = to_add \ {path}
                 /\ pass_result' = "ignored"
                 /\ running' = running
                 /\ lock' = (IF to_add' # {} THEN lock ELSE "free")
                 /\ pc' \in {pc, "loop"}
                 /\ lock = "ctl" => ctl' = (IF to_add' # {} THEN ctl
                                            ELSE "idle")
         /\ AddStep(path) /\ fs[path] = "dir" /\ n_faults' = n_faults
              => /\ path \in DOMAIN wd_map'
                 /\ wd_map'[path] \in DOMAIN kwatch'
                 /\ kwatch'[wd_map'[path]] = path
                 /\ to_add' = to_add \ {path}]_vars

\* a pass has ended normally in which add_watch failed for a directory that
\* is gone and registered another; the backend is running and waits
C18_Witness ==
    /\ pass_result = "ignored"
    /\ lock = "free"
    /\ to_add = {}
    /\ n_faults = 0
    /\ \E d \in add_calls : fs[d] # "dir" /\ d \notin DOMAIN wd_map
    /\ \E d \in add_calls : d \in DOMAIN wd_map
    /\ running
    /\ pc = "poll"

(***************************************************************************)
(* Teardown of the Win32 backend                                           *)
(***************************************************************************)

\* the teardown made call a before call b, if it made both
Before(a, b) ==
    \A i, j \in DOMAIN teardown :
        teardown[i] = a /\ teardown[j] = b => i < j

\* the teardown's record of win32file.CloseHandle on handle h
CloseOf(h) ==
    CASE h = "stop_event" -> "CloseHandle stop_event"
      [] h = "dir_handle" -> "CloseHandle dir_handle"
      [] OTHER -> "CloseHandle hEvent"

\* the teardown closed exactly the handles the instance had acquired, each
\* once, and cancelled the read exactly if the directory was open
ReleasedWhatWasAcquired ==
    /\ \A h \in Win32Handles :
          Cardinality({i \in DOMAIN teardown : teardown[i] = CloseOf(h)})
              = (IF h \in acquired THEN 1 ELSE 0)
    /\ Cardinality({i \in DOMAIN teardown : teardown[i] = "CancelIo"})
          = (IF "dir_handle" \in acquired THEN 1 ELSE 0)

\* C19 as stated: when run() of the Win32 backend has ended, the read was
\* cancelled before the directory handle was closed, the directory handle
\* was closed before the stop event and before the overlapped event, and
\* only acquired handles were released
C19_AsStated ==
    (thread_class = "win32" /\ pc = "done") =>
        /\ Before("CancelIo", "CloseHandle dir_handle")
        /\ Before("CloseHandle dir_handle",
                  "CloseHandle stop_event")
        /\ Before("CloseHandle dir_handle",
                  "CloseHandle hEvent")
        /\ ReleasedWhatWasAcquired

\* C19: when run() of the Win32 backend has ended, the stop event was
\* closed first, then the read was cancelled, then the directory handle was
\* closed, then the overlapped event; so the event the read signals is
\* never closed before the read is cancelled and the directory handle
\* closed; and only acquired handles were released, each once.
C19_TeardownOrder ==
    (thread_class = "win32" /\ pc = "done") =>
        /\ Before("CloseHandle stop_event", "CancelIo")
        /\ Before("CancelIo", "CloseHandle dir_handle")
        /\ Before("CloseHandle dir_handle",
                  "CloseHandle hEvent")
        /\ Before("CloseHandle stop_event",
                  "CloseHandle hEvent")
        /\ ReleasedWhatWasAcquired

\* a backend that had issued a read was stopped and released all it held
C19_Witness ==
    /\ thread_class = "win32"
    /\ pc = "done"
    /\ acquired = Win32Handles
    /\ Len(teardown) = 4
    /\ ~running
    /\ n_faults = 0

(***************************************************************************)
(* Who changes the watch map                                               *)
(***************************************************************************)

\* the step is an iteration of one of the loops of refresh()
PassStep == \E path \in Dirs : RmStep(path) \/ AddStep(path)

\* C20: while an inotify backend instance lives, _wd_map changes only in an
\* iteration of a loop of refresh(); such an iteration belongs to the pass
\* run() makes before its loop or to the pass of a Monitor.refresh() call;
\* the backend thread enters refresh() only from the setup of run(), and the
\* caller enters it only by a new refresh() call, one pass per call; and a
\* step of the run loop (waiting, handling raw events, emitting the
\* notification after a timeout) changes neither _wd_map nor the kernel's
\* watches and does not lead into refresh().
C20_WatchMapChangedOnlyByPass ==
    [][/\ (wd_map' # wd_map /\ pc' # "none") => PassStep
       /\ PassStep => \/ lock = "thr" /\ pc = "refresh"
                      \/ lock = "ctl" /\ ctl = "refresh"
       /\ (pc' = "refresh" /\ pc # "refresh") => pc = "setup"
       /\ (ctl' = "refresh_lock" /\ ctl # "refresh_lock")
              => ctl = "idle" /\ ctl_ops' = ctl_ops + 1
       /\ (ctl' = "refresh" /\ ctl # "refresh") => ctl = "refresh_lock"
       /\ (pc \in {"loop", "poll", "polled", "dispatch"} /\ pc' # pc)
              => /\ wd_map' = wd_map
                 /\ kwatch' = kwatch
                 /\ pc' # "refresh"]_vars

\* the backend handled a relevant event and emitted the notification with
\* the watch map its first pass had built, no refresh() having been called
C20_Witness ==
    /\ thread_class = "inotify"
    /\ notifications = 1
    /\ pc = "loop"
    /\ ctl_ops = 1
    /\ ctl = "idle"
    /\ pass_result = "complete"
    /\ Cardinality(DOMAIN wd_map) = 2
    /\ DOMAIN wd_map = add_calls


(***************************************************************************)
(* Asynchronous reads of the Win32 backend                                 *)
(***************************************************************************)

\* C21: in the Win32 backend at most one ReadDirectoryChangesW is
\* outstanding on the directory handle at any time (so the run loop issues
\* a read only when the previous one has completed).
C21_AtMostOneOutstandingRead ==
    thread_class = "win32" => outstanding <= 1

=============================================================================
